---- MODULE Spec2Model ----
(***************************************************************************)
(* A model of overtrue/pinyin.rs: the Pinyin value (parsing, rendering,    *)
(* tone-mark placement, yu normalisation), the dictionary matcher and the  *)
(* Converter's segmentation loop.                                          *)
(*                                                                         *)
(* A Rust `char` is modelled as a string token and a Rust `String` as a    *)
(* sequence of tokens.  ASCII characters are their own token; the other    *)
(* characters are written in ASCII:                                        *)
(*    "u:"            the letter u-diaeresis (U+00FC)                      *)
(*    "a1" .. "u:4"   a vowel carrying the diacritic of tone 1..4          *)
(*    "1/2"           the vulgar fraction one half (U+00BD), a character   *)
(*                    that is_numeric() accepts and to_digit(10) rejects   *)
(*    "U5355" ...     the character with that code point                   *)
(***************************************************************************)
EXTENDS Integers, Sequences, FiniteSets, TLC

(***************************************************************************)
(* Characters                                                              *)
(***************************************************************************)
UE == "u:"

Digits == <<"0", "1", "2", "3", "4", "5", "6", "7", "8", "9">>

AsciiAlphabetic ==
    {"a", "b", "c", "d", "e", "f", "g", "h", "i", "j", "k", "l", "m",
     "n", "o", "p", "q", "r", "s", "t", "u", "v", "w", "x", "y", "z"}

AsciiOther == {":", " ", "-", "!"}

\* the table of lib.rs, in the order of the source: 4 marks per vowel
tone_marks ==
    <<"a1", "a2", "a3", "a4", "e1", "e2", "e3", "e4",
      "i1", "i2", "i3", "i4", "o1", "o2", "o3", "o4",
      "u1", "u2", "u3", "u4", "u:1", "u:2", "u:3", "u:4">>

unmarked_vowels == <<"a", "e", "i", "o", "u", UE>>

Range(f) == {f[k] : k \in DOMAIN f}

IsAscii(c) == c \in AsciiAlphabetic \cup AsciiOther \cup Range(Digits)

\* the characters above U+07FF used here: three CJK ideographs (U+4E8E and
\* U+5355, which form the surname U+5355 U+4E8E, and the surname U+67E5)
\* and the fullwidth comma
Wide == {"U4E8E", "U5355", "U67E5", "UFF0C"}

\* char::len_utf8
len_utf8(c) == IF IsAscii(c) THEN 1 ELSE IF c \in Wide THEN 3 ELSE 2

\* the scalar value of a character, which orders strings (str::cmp)
CodePoint(c) ==
    CASE c = "x"     -> 120
      [] c = "U4E8E" -> 20110
      [] c = "U5355" -> 21333
      [] c = "U67E5" -> 26597
      [] c = "UFF0C" -> 65292

\* char::is_numeric
is_numeric(c) == c \in Range(Digits) \cup {"1/2"}

\* char::to_digit(10): 0..9, or -1 for None
to_digit(c) ==
    IF \E d \in 1..10 : Digits[d] = c
    THEN (CHOOSE d \in 1..10 : Digits[d] = c) - 1
    ELSE -1

(***************************************************************************)
(* str helpers                                                             *)
(***************************************************************************)
\* str::len, the length in bytes
RECURSIVE len(_)
len(s) == IF s = <<>> THEN 0 ELSE len_utf8(Head(s)) + len(Tail(s))

\* chars().count()
count(s) == Len(s)

\* chars().take(n)
take(s, n) == SubSeq(s, 1, IF n < Len(s) THEN n ELSE Len(s))

\* chars().skip(n)
skip(s, n) == SubSeq(s, (IF n < Len(s) THEN n ELSE Len(s)) + 1, Len(s))

starts_with(s, pat) ==
    /\ Len(pat) <= Len(s)
    /\ SubSeq(s, 1, Len(pat)) = pat

\* str::contains with a string pattern
RECURSIVE contains(_, _)
contains(s, pat) ==
    IF Len(s) < Len(pat) THEN FALSE
    ELSE starts_with(s, pat) \/ contains(Tail(s), pat)

\* str::replace: every non-overlapping occurrence, left to right
RECURSIVE replace(_, _, _)
replace(s, from, to) ==
    IF s = <<>> THEN <<>>
    ELSE IF starts_with(s, from)
         THEN to \o replace(SubSeq(s, Len(from) + 1, Len(s)), from, to)
         ELSE <<Head(s)>> \o replace(Tail(s), from, to)

\* str::split on a character: the sequence of the parts
RECURSIVE split(_, _)
split(s, sep) ==
    IF \A k \in 1..Len(s) : s[k] # sep THEN <<s>>
    ELSE LET k == CHOOSE j \in 1..Len(s) :
                      s[j] = sep /\ \A m \in 1..(j - 1) : s[m] # sep
         IN  <<SubSeq(s, 1, k - 1)>> \o split(SubSeq(s, k + 1, Len(s)), sep)

\* str::trim_end for the whitespace used here
RECURSIVE trim_end(_)
trim_end(s) ==
    IF s # <<>> /\ s[Len(s)] = " " THEN trim_end(SubSeq(s, 1, Len(s) - 1))
    ELSE s

\* the concatenation of a sequence of strings
RECURSIVE Concat(_)
Concat(ss) == IF ss = <<>> THEN <<>> ELSE Head(ss) \o Concat(Tail(ss))

(***************************************************************************)
(* Pinyin value (lib.rs)                                                   *)
(***************************************************************************)
ToneStyle == {"Number", "Mark", "None"}
YuFormat == {"Yu", "U", "V"}

\* a Result or a panic: tag is "Ok", "Err" or "Panic"
NoPinyin == [pinyin |-> <<>>, tone |-> 0]
Ok(v) == [tag |-> "Ok", val |-> v]
Err(v) == [tag |-> "Err", val |-> v]
Panic(v) == [tag |-> "Panic", val |-> v]

\* Pinyin::new: the two assertions and the check of the letters
Pinyin_new(pinyin, tone) ==
    IF tone \notin 1..5 THEN Panic(NoPinyin)
    ELSE IF pinyin = <<>> THEN Panic(NoPinyin)
    ELSE IF ~ \A k \in 1..Len(pinyin) :
                 pinyin[k] \in AsciiAlphabetic \/ pinyin[k] = UE
         THEN Panic(NoPinyin)
    ELSE Ok([pinyin |-> pinyin, tone |-> tone])

\* mark_vowel, called with a tone in 1..5 and one of the six vowels
mark_vowel(vowel, tone) ==
    IF tone = 0 \/ tone = 5 THEN vowel
    ELSE LET index == CASE vowel = "a" -> tone
                        [] vowel = "e" -> tone + 4
                        [] vowel = "i" -> tone + 8
                        [] vowel = "o" -> tone + 12
                        [] vowel = "u" -> tone + 16
                        [] vowel = UE  -> tone + 20
         IN  tone_marks[index]

IsVowel(c) == c \in Range(unmarked_vowels)

\* the guard of the break in format_to_mark: c != 'i' || c != 'u' || c != UE
MarkLoopBreaks(c) == c # "i" \/ c # "u" \/ c # UE

\* the scan of format_to_mark from index idx on: the value of last_vowel_idx
\* when the loop ends (0 for the initial -1; indices count from 1)
RECURSIVE MarkScan(_, _, _)
MarkScan(chars, idx, last_vowel_idx) ==
    IF idx > Len(chars) THEN last_vowel_idx
    ELSE IF IsVowel(chars[idx])
         THEN IF MarkLoopBreaks(chars[idx]) THEN idx
              ELSE MarkScan(chars, idx + 1, idx)
         ELSE MarkScan(chars, idx + 1, last_vowel_idx)

format_to_mark(pinyin, tone) ==
    LET last_vowel_idx == MarkScan(pinyin, 1, 0)
    IN  IF last_vowel_idx > 0
        THEN [pinyin EXCEPT ![last_vowel_idx] = mark_vowel(pinyin[last_vowel_idx], tone)]
        ELSE pinyin

\* the position of c in tone_marks, 0-based, or -1
MarkPosition(c) ==
    IF \E p \in 1..24 : tone_marks[p] = c
    THEN (CHOOSE p \in 1..24 : tone_marks[p] = c) - 1
    ELSE -1

\* remove_tone: the first marked vowel loses its mark and gives the tone
remove_tone(pinyin) ==
    IF \E k \in 1..Len(pinyin) : MarkPosition(pinyin[k]) >= 0
    THEN LET idx == CHOOSE k \in 1..Len(pinyin) :
                        /\ MarkPosition(pinyin[k]) >= 0
                        /\ \A m \in 1..(k - 1) : MarkPosition(pinyin[m]) < 0
             p == MarkPosition(pinyin[idx])
         IN  <<[pinyin EXCEPT ![idx] = unmarked_vowels[(p \div 4) + 1]], (p % 4) + 1>>
    ELSE <<pinyin, 5>>

\* Display for Pinyin: "{}{}" of the syllable and the tone
Pinyin_to_string(p) == p.pinyin \o <<Digits[p.tone + 1]>>

\* Pinyin::format
Pinyin_format(p, style) ==
    CASE style = "Number" -> Pinyin_to_string(p)
      [] style = "Mark"   -> format_to_mark(p.pinyin, p.tone)
      [] style = "None"   -> replace(p.pinyin, <<UE>>, <<"v">>)

\* YuNormalised without the exception for a syllable containing u-diaeresis e
YuNormalised_always_yu(p, yu_format) ==
    CASE yu_format = "Yu" -> replace(p.pinyin, <<UE>>, <<"y", "u">>)
      [] yu_format = "V" -> replace(p.pinyin, <<UE>>, <<"v">>)
      [] yu_format = "U" ->
            replace(replace(p.pinyin, <<"v">>, <<UE>>), <<"y", "u">>, <<UE>>)

\* the local `pinyin` of format_with_yu: the syllable in the yu format
YuNormalised(p, yu_format) ==
    CASE yu_format = "Yu" ->
            IF contains(p.pinyin, <<UE, "e">>) THEN p.pinyin
            ELSE replace(p.pinyin, <<UE>>, <<"y", "u">>)
      [] yu_format = "V" -> replace(p.pinyin, <<UE>>, <<"v">>)
      [] yu_format = "U" ->
            replace(replace(p.pinyin, <<"v">>, <<UE>>), <<"y", "u">>, <<UE>>)

\* format_with_yu leaving out the digit of the neutral tone
format_with_yu_no_digit_5(p, style, yu_format) ==
    LET pinyin == YuNormalised(p, yu_format)
    IN  IF (contains(pinyin, <<"l", "y", "u">>) \/ contains(pinyin, <<"n", "y", "u">>))
           /\ style # "None"
        THEN pinyin
        ELSE CASE style = "Number" ->
                    IF p.tone = 5 THEN pinyin ELSE pinyin \o <<Digits[p.tone + 1]>>
               [] style = "Mark"   -> format_to_mark(pinyin, p.tone)
               [] style = "None"   -> replace(pinyin, <<UE>>, <<"v">>)

\* format_with_yu without the final replacement in the toneless style
format_with_yu_keeps_ue(p, style, yu_format) ==
    LET pinyin == YuNormalised(p, yu_format)
    IN  IF (contains(pinyin, <<"l", "y", "u">>) \/ contains(pinyin, <<"n", "y", "u">>))
           /\ style # "None"
        THEN pinyin
        ELSE CASE style = "Number" -> pinyin \o <<Digits[p.tone + 1]>>
               [] style = "Mark"   -> format_to_mark(pinyin, p.tone)
               [] style = "None"   -> pinyin

\* Pinyin::format_with_yu
format_with_yu(p, style, yu_format) ==
    LET pinyin == YuNormalised(p, yu_format)
    IN  IF (contains(pinyin, <<"l", "y", "u">>) \/ contains(pinyin, <<"n", "y", "u">>))
           /\ style # "None"
        THEN pinyin
        ELSE CASE style = "Number" -> pinyin \o <<Digits[p.tone + 1]>>
               [] style = "Mark"   -> format_to_mark(pinyin, p.tone)
               [] style = "None"   -> replace(pinyin, <<UE>>, <<"v">>)

\* Pinyin::from_str
Pinyin_from_str(s) ==
    IF s = <<>> THEN Err(NoPinyin)
    ELSE IF is_numeric(s[Len(s)])
         THEN IF to_digit(s[Len(s)]) < 0 THEN Panic(NoPinyin)
              ELSE LET tone == to_digit(s[Len(s)])
                       pinyin == take(s, len(s) - 1)
                   IN  IF tone > 5 THEN Err(NoPinyin)
                       ELSE Pinyin_new(pinyin, tone)
         ELSE LET r == remove_tone(s)
              IN  Pinyin_new(r[1], r[2])

(***************************************************************************)
(* Word entry (lib.rs)                                                     *)
(***************************************************************************)
NoWord == [word |-> <<>>, pinyin |-> <<>>]

\* the loop of PinyinWord::from_str over the syllables: the Pinyin values,
\* or the first failure
RECURSIVE ParseSyllables(_, _)
ParseSyllables(ps, acc) ==
    IF ps = <<>> THEN Ok(acc)
    ELSE LET r == Pinyin_from_str(Head(ps))
         IN  IF r.tag = "Ok" THEN ParseSyllables(Tail(ps), Append(acc, r.val))
             ELSE [tag |-> r.tag, val |-> <<>>]

\* PinyinWord::from_str
PinyinWord_from_str(s) ==
    LET parts == split(s, ":")
    IN  IF Len(parts) < 2 THEN Err(NoWord)
        ELSE LET r == ParseSyllables(split(parts[2], " "), <<>>)
             IN  IF r.tag = "Ok"
                 THEN Ok([word |-> parts[1], pinyin |-> r.val])
                 ELSE [tag |-> r.tag, val |-> NoWord]

\* Display for PinyinWord
RECURSIVE JoinStrings(_, _)
JoinStrings(ss, sep) ==
    IF ss = <<>> THEN <<>>
    ELSE IF Len(ss) = 1 THEN ss[1]
    ELSE ss[1] \o sep \o JoinStrings(Tail(ss), sep)

PinyinWord_to_string(w) ==
    w.word \o <<":">>
        \o JoinStrings([k \in 1..Len(w.pinyin) |-> Pinyin_to_string(w.pinyin[k])], <<" ">>)

(***************************************************************************)
(* Dictionaries (loader.rs).  The data files are not part of the sources;  *)
(* the entries below are the entries whose keys can occur in the inputs    *)
(* of the model, and WordsLen, CharsLen count all entries of a dictionary. *)
(***************************************************************************)
dan1 == <<"d", "a1", "n">>
shan4 == <<"s", "h", "a4", "n">>
chan2 == <<"c", "h", "a2", "n">>
yu2 == <<"y", "u2">>
cha2 == <<"c", "h", "a2">>
zha1 == <<"z", "h", "a1">>
SP == <<" ">>

DAN == "U5355"
YU == "U4E8E"
ZHA == "U67E5"
COMMA == "UFF0C"

\* WordsLoader::new: the words dictionary
Words ==
    (<<DAN, YU>> :> (chan2 \o SP \o yu2)) @@
    (<<YU, DAN, YU>> :> (yu2 \o SP \o chan2 \o SP \o yu2))

\* CharsLoader::new: the chars dictionary; U+5355 has three readings and
\* U+67E5 two
Chars ==
    (<<DAN>> :> (dan1 \o SP \o shan4 \o SP \o chan2)) @@
    (<<YU>> :> yu2) @@
    (<<ZHA>> :> (cha2 \o SP \o zha1))

\* SurnamesLoader::new: the surnames dictionary
Surnames ==
    (<<DAN>> :> shan4) @@
    (<<YU>> :> yu2) @@
    (<<ZHA>> :> zha1) @@
    (<<DAN, YU>> :> (chan2 \o SP \o yu2))

WordsLen == 20
CharsLen == 10

CHUNK_COUNT == 10

\* the argument of par_chunks in WordsLoader::load and CharsLoader::load
chunk_size(n) == n \div CHUNK_COUNT

\* the ways of cutting a dictionary, iterated in the arbitrary order of a
\* HashMap, into chunks of chunk_size entries: the groups of the keys that
\* share a chunk
Chunkings(keys, size) ==
    {P \in SUBSET (SUBSET keys \ {{}}) :
        /\ UNION P = keys
        /\ \A B \in P : Cardinality(B) <= size
        /\ \A B1 \in P : \A B2 \in P : B1 # B2 => B1 \cap B2 = {}}

\* SurnamesLoader::load: one chunk
SurnamesLoader_load == {DOMAIN Surnames}

(***************************************************************************)
(* Matcher (matcher.rs)                                                    *)
(***************************************************************************)
MatchesAt(k, q, s) ==
    /\ s + Len(k) - 1 <= Len(q)
    /\ SubSeq(q, s, s + Len(k) - 1) = k

SetMin(S) == CHOOSE m \in S : \A n \in S : m <= n

\* leftmost_find_iter of an automaton built with MatchKind::LeftmostLongest
\* over the keys of one chunk: the keys of the non-overlapping matches in
\* q from position pos on
RECURSIVE leftmost_find_iter(_, _, _)
leftmost_find_iter(keys, q, pos) ==
    LET starts == {s \in pos..Len(q) : \E k \in keys : MatchesAt(k, q, s)}
    IN  IF starts = {} THEN {}
        ELSE LET s == SetMin(starts)
                 k == CHOOSE k1 \in keys :
                          /\ MatchesAt(k1, q, s)
                          /\ \A k2 \in keys : MatchesAt(k2, q, s) => Len(k2) <= Len(k1)
             IN  {k} \cup leftmost_find_iter(keys, q, s + Len(k))

\* str::cmp: a < b in the order of the scalar values
RECURSIVE StrLess(_, _)
StrLess(a, b) ==
    IF b = <<>> THEN FALSE
    ELSE IF a = <<>> THEN TRUE
    ELSE IF Head(a) # Head(b) THEN CodePoint(Head(a)) < CodePoint(Head(b))
    ELSE StrLess(Tail(a), Tail(b))

\* sort_by_key_length_desc: entries.sort_by(|(k1, _), (k2, _)| k2.cmp(k1))
RECURSIVE sort_by_key_length_desc(_)
sort_by_key_length_desc(keys) ==
    IF keys = {} THEN <<>>
    ELSE LET top == CHOOSE k \in keys : \A k2 \in keys : k2 = k \/ StrLess(k2, k)
         IN  <<top>> \o sort_by_key_length_desc(keys \ {top})

\* Matcher::match_to_pinyin with desc_by_key: the matches of all handlers,
\* collected in a map and sorted
match_to_pinyin(chunks, dict, word) ==
    LET found_keys == UNION {leftmost_find_iter(B, word, 1) : B \in chunks}
        sorted == sort_by_key_length_desc(found_keys)
    IN  [n \in 1..Len(sorted) |-> <<sorted[n], dict[sorted[n]]>>]

\* the chars matcher ahead of the words matcher
match_word_pinyin_chars_first(wchunks, cchunks, word) ==
    match_to_pinyin(cchunks, Chars, word) \o match_to_pinyin(wchunks, Words, word)

\* the words matcher alone
match_word_pinyin_words_only(wchunks, cchunks, word) ==
    match_to_pinyin(wchunks, Words, word)

\* match_word_pinyin: the words matcher, then the chars matcher
match_word_pinyin(wchunks, cchunks, word) ==
    match_to_pinyin(wchunks, Words, word) \o match_to_pinyin(cchunks, Chars, word)

\* match_surname_pinyin; results[0] panics on an empty vector
match_surname_pinyin(wchunks, cchunks, surname) ==
    LET last_name == take(surname, 2)
        results == match_to_pinyin(SurnamesLoader_load, Surnames, last_name)
    IN  IF results = <<>> THEN Panic(<<>>)
        ELSE LET first_name == skip(surname, count(results[1][1]))
             IN  IF first_name # <<>>
                 THEN Ok(results \o match_word_pinyin(wchunks, cchunks, first_name))
                 ELSE Ok(results)

(***************************************************************************)
(* State                                                                   *)
(***************************************************************************)
VARIABLES
    \* the fields of a Converter
    input, tone_style, yu_format, surname_mode, flatten, only_hans,
    \* the chunks behind WORD_MATCHERS: the groups of keys of the words and
    \* of the chars dictionary that share an automaton
    words_chunks, chars_chunks,
    \* the locals of Converter::convert and the position in its body
    matched_words, result, i, skip_matched_len, found, pc, panic,
    \* the separator and the string of the last call of to_string_with
    sep, out,
    \* a Pinyin value, a string, the arguments and the result of the last
    \* operation applied to them
    pin, text, style, yu, op, parsed,
    \* the statics of matcher.rs: the OnceLocks that are initialised, how
    \* often each dictionary was parsed (Loader::new) and its automata
    \* compiled (Matcher::new), and the last call of a match function
    once, loads, builds, calls, call, query, matches,
    \* the dictionary sources of build.rs, the data files it writes, the
    \* maps the loaders parse from them and the steps taken so far
    base, patch, words_files, chars_files, words, chars, steps,
    \* a dictionary of dict_len entries and the chunks load answers
    dict_len, chunks

cvars == <<input, tone_style, yu_format, surname_mode, flatten, only_hans,
           words_chunks, chars_chunks,
           matched_words, result, i, skip_matched_len, found, pc, panic,
           sep, out>>
pvars == <<pin, text, style, yu, op, parsed>>
mvars == <<once, loads, builds, calls, call, query, matches>>
lvars == <<base, patch, words_files, chars_files, words, chars, steps,
           dict_len, chunks>>
vars == <<cvars, pvars, mvars, lvars>>

config == <<tone_style, yu_format, surname_mode, flatten, only_hans>>
locals == <<matched_words, result, i, skip_matched_len, found>>
rvars == <<sep, out>>

MaxLen == 3

InputChars == {DAN, YU, ZHA, COMMA, "x"}

RECURSIVE StringsUpTo(_, _)
StringsUpTo(alphabet, n) ==
    IF n = 0 THEN {<<>>}
    ELSE LET shorter == StringsUpTo(alphabet, n - 1)
         IN  shorter \cup {Append(t, c) : t \in shorter, c \in alphabet}

\* the result of no parse yet
NotParsed == [by |-> "none", res |-> Err(NoPinyin)]

\* the Pinyin variables while the Converter runs
PIdle ==
    /\ pin = NoPinyin
    /\ text = <<>>
    /\ style = "Mark"
    /\ yu = "U"
    /\ op = "idle"
    /\ parsed = NotParsed

Dicts == {"words", "chars", "surnames"}

\* the statics of matcher.rs while no match function is followed
MIdle ==
    /\ once = {}
    /\ loads = [d \in Dicts |-> 0]
    /\ builds = [d \in Dicts |-> 0]
    /\ calls = 0
    /\ call = "none"
    /\ query = <<>>
    /\ matches = Ok(<<>>)

\* the result of no load yet
NotLoaded == [tag |-> "none", val |-> <<>>]

\* the build and the loaders while they are not followed
LIdle ==
    /\ base = <<>>
    /\ patch = <<>>
    /\ words_files = <<>>
    /\ chars_files = <<>>
    /\ words = <<>>
    /\ chars = <<>>
    /\ steps = {}
    /\ dict_len = 0
    /\ chunks = NotLoaded

\* Converter::new, and the statics of matcher.rs once initialised
Init ==
    /\ input \in StringsUpTo(InputChars, MaxLen)
    /\ tone_style = "Mark"
    /\ yu_format = "U"
    /\ surname_mode = FALSE
    /\ flatten = FALSE
    /\ only_hans = FALSE
    /\ words_chunks \in Chunkings(DOMAIN Words, chunk_size(WordsLen))
    /\ chars_chunks \in Chunkings(DOMAIN Chars, chunk_size(CharsLen))
    /\ matched_words = <<>>
    /\ result = <<>>
    /\ i = 0
    /\ skip_matched_len = 0
    /\ found = FALSE
    /\ pc = "new"
    /\ panic = "none"
    /\ sep = <<>>
    /\ out = <<>>
    /\ PIdle
    /\ MIdle
    /\ LIdle

(***************************************************************************)
(* The setters of the Converter (converter.rs)                             *)
(***************************************************************************)
with_tone_style(st) ==
    /\ pc = "new"
    /\ tone_style' = st
    /\ UNCHANGED <<input, yu_format, surname_mode, flatten, only_hans,
                   words_chunks, chars_chunks, locals, pc, panic, pvars, mvars, lvars, rvars>>

without_tone ==
    /\ pc = "new"
    /\ tone_style' = "None"
    /\ UNCHANGED <<input, yu_format, surname_mode, flatten, only_hans,
                   words_chunks, chars_chunks, locals, pc, panic, pvars, mvars, lvars, rvars>>

yu_to_yu ==
    /\ pc = "new"
    /\ yu_format' = "Yu"
    /\ UNCHANGED <<input, tone_style, surname_mode, flatten, only_hans,
                   words_chunks, chars_chunks, locals, pc, panic, pvars, mvars, lvars, rvars>>

yu_to_u ==
    /\ pc = "new"
    /\ yu_format' = "U"
    /\ UNCHANGED <<input, tone_style, surname_mode, flatten, only_hans,
                   words_chunks, chars_chunks, locals, pc, panic, pvars, mvars, lvars, rvars>>

\* a yu_to_v that leaves the tone style
yu_to_v_keeps_tone ==
    /\ pc = "new"
    /\ yu_format' = "V"
    /\ UNCHANGED <<input, tone_style, surname_mode, flatten, only_hans,
                   words_chunks, chars_chunks, locals, pc, panic, pvars, mvars, lvars, rvars>>

yu_to_v ==
    /\ pc = "new"
    /\ yu_format' = "V"
    /\ tone_style' = "None"
    /\ UNCHANGED <<input, surname_mode, flatten, only_hans,
                   words_chunks, chars_chunks, locals, pc, panic, pvars, mvars, lvars, rvars>>

Converter_flatten ==
    /\ pc = "new"
    /\ flatten' = TRUE
    /\ UNCHANGED <<input, tone_style, yu_format, surname_mode, only_hans,
                   words_chunks, chars_chunks, locals, pc, panic, pvars, mvars, lvars, rvars>>

as_surnames ==
    /\ pc = "new"
    /\ surname_mode' = TRUE
    /\ flatten' = TRUE
    /\ UNCHANGED <<input, tone_style, yu_format, only_hans,
                   words_chunks, chars_chunks, locals, pc, panic, pvars, mvars, lvars, rvars>>

Converter_only_hans ==
    /\ pc = "new"
    /\ only_hans' = TRUE
    /\ UNCHANGED <<input, tone_style, yu_format, surname_mode, flatten,
                   words_chunks, chars_chunks, locals, pc, panic, pvars, mvars, lvars, rvars>>

(***************************************************************************)
(* Converter::convert (converter.rs)                                       *)
(***************************************************************************)
input_len == count(input)

\* PinyinWord::from_str(&format!("{}:{}", word, pinyin))
ParseEntry(entry) == PinyinWord_from_str(entry[1] \o <<":">> \o entry[2])

\* a truncate that cuts nothing
truncate_keeps_all(v, n) == v

\* Vec::truncate
truncate(v, n) == SubSeq(v, 1, IF n < Len(v) THEN n ELSE Len(v))

\* the condition of the for loop of convert on one candidate
CandidateMatches(word, at) ==
    /\ at + count(word) <= input_len
    /\ SubSeq(input, at + 1, at + count(word)) = word

\* lines 27-51: the candidates, and in surname mode the first of them
convert_begin ==
    /\ pc = "new"
    /\ LET m == IF surname_mode
                THEN match_surname_pinyin(words_chunks, chars_chunks, input)
                ELSE Ok(match_word_pinyin(words_chunks, chars_chunks, input))
       IN  IF m.tag = "Panic"
           THEN /\ pc' = "panic"
                /\ panic' = "index out of bounds"
                /\ UNCHANGED locals
           ELSE IF surname_mode /\ m.val # <<>>
           THEN LET w == ParseEntry(m.val[1])
                IN  IF w.tag # "Ok"
                    THEN /\ pc' = "panic"
                         /\ panic' = "unwrap"
                         /\ matched_words' = m.val
                         /\ UNCHANGED <<result, i, skip_matched_len, found>>
                    ELSE /\ matched_words' = m.val
                         /\ result' = <<w.val>>
                         /\ i' = count(m.val[1][1])
                         /\ skip_matched_len' = 1
                         /\ pc' = "while"
                         /\ UNCHANGED <<found, panic>>
           ELSE /\ matched_words' = m.val
                /\ pc' = "while"
                /\ UNCHANGED <<result, i, skip_matched_len, found, panic>>
    /\ UNCHANGED <<input, config, words_chunks, chars_chunks, pvars, mvars, lvars, rvars>>

\* line 53-54: the test of the while loop
while_test ==
    /\ pc = "while"
    /\ IF i < input_len
       THEN found' = FALSE /\ pc' = "for"
       ELSE found' = found /\ pc' = "done"
    /\ UNCHANGED <<input, config, words_chunks, chars_chunks,
                   matched_words, result, i, skip_matched_len, panic, pvars, mvars, lvars, rvars>>

\* a for loop that advances the cursor by the bytes of the word
for_candidates_byte_offset ==
    /\ pc = "for"
    /\ LET cands == skip(matched_words, skip_matched_len)
           hits == {n \in 1..Len(cands) : CandidateMatches(cands[n][1], i)}
       IN  IF hits = {}
           THEN /\ pc' = "if"
                /\ UNCHANGED <<result, i, found, panic>>
           ELSE LET n == SetMin(hits)
                    word_len == count(cands[n][1])
                    w == ParseEntry(cands[n])
                IN  IF w.tag # "Ok"
                    THEN /\ pc' = "panic"
                         /\ panic' = "unwrap"
                         /\ UNCHANGED <<result, i, found>>
                    ELSE /\ result' = Append(result,
                                IF flatten
                                THEN [w.val EXCEPT !.pinyin = truncate(@, word_len)]
                                ELSE w.val)
                         /\ i' = i + len(cands[n][1])
                         /\ found' = TRUE
                         /\ pc' = "if"
                         /\ UNCHANGED panic
    /\ UNCHANGED <<input, config, words_chunks, chars_chunks,
                   matched_words, skip_matched_len, pvars, mvars, lvars, rvars>>

\* lines 56-76: the first candidate that matches at i is pushed
for_candidates ==
    /\ pc = "for"
    /\ LET cands == skip(matched_words, skip_matched_len)
           hits == {n \in 1..Len(cands) : CandidateMatches(cands[n][1], i)}
       IN  IF hits = {}
           THEN /\ pc' = "if"
                /\ UNCHANGED <<result, i, found, panic>>
           ELSE LET n == SetMin(hits)
                    word_len == count(cands[n][1])
                    w == ParseEntry(cands[n])
                IN  IF w.tag # "Ok"
                    THEN /\ pc' = "panic"
                         /\ panic' = "unwrap"
                         /\ UNCHANGED <<result, i, found>>
                    ELSE /\ result' = Append(result,
                                IF flatten
                                THEN [w.val EXCEPT !.pinyin = truncate(@, word_len)]
                                ELSE w.val)
                         /\ i' = i + word_len
                         /\ found' = TRUE
                         /\ pc' = "if"
                         /\ UNCHANGED panic
    /\ UNCHANGED <<input, config, words_chunks, chars_chunks,
                   matched_words, skip_matched_len, pvars, mvars, lvars, rvars>>

\* lines 78-84: the entry of a character that no candidate matches
fallback ==
    /\ pc = "if"
    /\ IF ~found /\ ~only_hans
       THEN LET c == input[i + 1]
                p == Pinyin_new(<<c>>, 5)
            IN  IF p.tag # "Ok"
                THEN /\ pc' = "panic"
                     /\ panic' = "Invalid pinyin"
                     /\ UNCHANGED <<result, i>>
                ELSE /\ result' = Append(result, [word |-> <<c>>, pinyin |-> <<p.val>>])
                     /\ i' = i + 1
                     /\ pc' = "while"
                     /\ UNCHANGED panic
       ELSE /\ pc' = "while"
            /\ UNCHANGED <<result, i, panic>>
    /\ UNCHANGED <<input, config, words_chunks, chars_chunks,
                   matched_words, skip_matched_len, found, pvars, mvars, lvars, rvars>>

\* to_string_with without the test of line 104: the separator is pushed
\* before every word
RECURSIVE to_string_with_leading_sep(_, _, _)
to_string_with_leading_sep(ws, s, acc) ==
    IF ws = <<>> THEN trim_end(acc)
    ELSE to_string_with_leading_sep(Tail(ws), s,
             acc \o s \o
             JoinStrings([k \in 1..Len(Head(ws).pinyin) |->
                             format_with_yu(Head(ws).pinyin[k], tone_style, yu_format)], s))

\* lines 101-120: the loop of to_string_with over the words ws that convert
\* returned, from the string acc on, and the trim_end of its end
RECURSIVE to_string_with(_, _, _)
to_string_with(ws, s, acc) ==
    IF ws = <<>> THEN trim_end(acc)
    ELSE to_string_with(Tail(ws), s,
             (IF acc # <<>> THEN acc \o s ELSE acc) \o
             JoinStrings([k \in 1..Len(Head(ws).pinyin) |->
                             format_with_yu(Head(ws).pinyin[k], tone_style, yu_format)], s))

\* separators of a direct call of to_string_with
Separators == {<<>>, <<"_">>, <<",", " ">>}

\* a call of to_string_with once its convert has returned
call_to_string_with(s) ==
    /\ pc = "done"
    /\ sep' = s
    /\ out' = to_string_with(result, s, <<>>)
    /\ pc' = "to_string_with"
    /\ UNCHANGED <<input, config, words_chunks, chars_chunks, locals, panic,
                   pvars, mvars, lvars>>

\* to_string: to_string_with(" ")
Converter_to_string ==
    /\ pc = "done"
    /\ sep' = <<" ">>
    /\ out' = to_string_with(result, <<" ">>, <<>>)
    /\ pc' = "to_string"
    /\ UNCHANGED <<input, config, words_chunks, chars_chunks, locals, panic,
                   pvars, mvars, lvars>>

\* to_permalink: to_string_with("-")
to_permalink ==
    /\ pc = "done"
    /\ sep' = <<"-">>
    /\ out' = to_string_with(result, <<"-">>, <<>>)
    /\ pc' = "to_permalink"
    /\ UNCHANGED <<input, config, words_chunks, chars_chunks, locals, panic,
                   pvars, mvars, lvars>>

Next ==
    \/ \E st \in ToneStyle : with_tone_style(st)
    \/ without_tone
    \/ yu_to_yu
    \/ yu_to_u
    \/ yu_to_v
    \/ Converter_flatten
    \/ as_surnames
    \/ Converter_only_hans
    \/ convert_begin
    \/ while_test
    \/ for_candidates
    \/ fallback
    \/ \E s \in Separators : call_to_string_with(s)
    \/ Converter_to_string
    \/ to_permalink

Spec == Init /\ [][Next]_vars

(***************************************************************************)
(* The Pinyin value on its own: a value built by Pinyin::new is rendered   *)
(* and the rendering parsed back; a string is parsed.                      *)
(***************************************************************************)
MaxBody == 3
MaxText == 3

Onsets == {<<>>, <<"l">>, <<"n">>, <<"y">>, <<"l", "y">>, <<"n", "y">>}
BodyChars == {"a", "e", "i", "o", "u", UE, "v"}
Tones == 1..5

Syllables ==
    {o \o b : o \in Onsets, b \in StringsUpTo(BodyChars, MaxBody)} \ {<<>>}

TextChars == {"a", UE, "0", "5", "6", ":", " "}
Texts == StringsUpTo(TextChars, MaxText)

\* the syllable syl written with a tone mark: one vowel carries the
\* diacritic of a tone 1..4
MarkedTexts(syl) ==
    {[syl EXCEPT ![k] = mark_vowel(@, t)] :
        k \in {j \in 1..Len(syl) : IsVowel(syl[j])}, t \in 1..4}

\* the Converter variables while a Pinyin value is exercised
CIdle ==
    /\ input = <<>>
    /\ tone_style = "Mark"
    /\ yu_format = "U"
    /\ surname_mode = FALSE
    /\ flatten = FALSE
    /\ only_hans = FALSE
    /\ words_chunks = {}
    /\ chars_chunks = {}
    /\ matched_words = <<>>
    /\ result = <<>>
    /\ i = 0
    /\ skip_matched_len = 0
    /\ found = FALSE
    /\ pc = "idle"
    /\ panic = "none"
    /\ sep = <<>>
    /\ out = <<>>

PInit ==
    /\ CIdle
    /\ MIdle
    /\ LIdle
    /\ style = "Mark"
    /\ yu = "U"
    /\ parsed = NotParsed
    /\ \/ /\ op = "new"
          /\ text = <<>>
          /\ \E syl \in Syllables : \E t \in Tones : pin = Pinyin_new(syl, t).val
       \/ /\ op = "text"
          /\ \/ text \in Texts
             \/ \E syl \in Syllables : text \in MarkedTexts(syl)
          /\ pin = NoPinyin

\* p.to_string()
call_to_string ==
    /\ op = "new"
    /\ text' = Pinyin_to_string(pin)
    /\ op' = "to_string"
    /\ UNCHANGED <<cvars, mvars, lvars, pin, style, yu, parsed>>

\* p.format(st)
call_format(st) ==
    /\ op = "new"
    /\ text' = Pinyin_format(pin, st)
    /\ style' = st
    /\ op' = "format"
    /\ UNCHANGED <<cvars, mvars, lvars, pin, yu, parsed>>

\* p.format_with_yu(st, y)
call_format_with_yu(st, y) ==
    /\ op = "new"
    /\ text' = format_with_yu(pin, st, y)
    /\ style' = st
    /\ yu' = y
    /\ op' = "format_with_yu"
    /\ UNCHANGED <<cvars, mvars, lvars, pin, parsed>>

\* Pinyin::from_str(text), of a string or of a rendering
call_from_str ==
    /\ op \in {"text", "to_string", "format"}
    /\ parsed = NotParsed
    /\ parsed' = [by |-> "Pinyin", res |-> Pinyin_from_str(text)]
    /\ UNCHANGED <<cvars, mvars, lvars, pin, text, style, yu, op>>

\* PinyinWord::from_str(text)
call_word_from_str ==
    /\ op = "text"
    /\ parsed = NotParsed
    /\ parsed' = [by |-> "PinyinWord", res |-> PinyinWord_from_str(text)]
    /\ UNCHANGED <<cvars, mvars, lvars, pin, text, style, yu, op>>

PNext ==
    \/ call_to_string
    \/ \E st \in ToneStyle : call_format(st)
    \/ \E st \in ToneStyle : \E y \in YuFormat : call_format_with_yu(st, y)
    \/ call_from_str
    \/ call_word_from_str

PinyinSpec == PInit /\ [][PNext]_vars

(***************************************************************************)
(* The match functions and the statics of matcher.rs: calls of             *)
(* match_word_pinyin, match_surname_pinyin and match_char_pinyin, one      *)
(* after the other, in one process.                                        *)
(***************************************************************************)
MaxCalls == 2

\* match_char_pinyin: a matcher over the chars dictionary, its matches in
\* the character sorted
match_char_pinyin(cchunks, ch) == match_to_pinyin(cchunks, Chars, <<ch>>)

Statics == [once |-> once, loads |-> loads, builds |-> builds]

\* LOADER.get_or_init(|| Loader::new()): the closure runs when the cell is
\* empty
LoaderOnce(s, cell, d) ==
    IF cell \in s.once THEN s
    ELSE [s EXCEPT !.once = @ \cup {cell}, !.loads[d] = @ + 1]

\* Matcher::new: the automata of the chunks of a dictionary are compiled
Matcher_new(s, d) == [s EXCEPT !.builds[d] = @ + 1]

\* WORD_MATCHERS.get_or_init(..): the closure builds the words and the
\* chars matcher when the cell is empty
WordMatchersOnce(s) ==
    IF "WORD_MATCHERS" \in s.once THEN s
    ELSE LET s1 == Matcher_new(LoaderOnce(s, "WORDS_LOADER", "words"), "words")
             s2 == Matcher_new(LoaderOnce(s1, "CHARS_LOADER", "chars"), "chars")
         IN  [s2 EXCEPT !.once = @ \cup {"WORD_MATCHERS"}]

SetStatics(s) ==
    /\ once' = s.once
    /\ loads' = s.loads
    /\ builds' = s.builds

\* the Converter variables while the match functions are called
MConverter ==
    /\ input = <<>>
    /\ tone_style = "Mark"
    /\ yu_format = "U"
    /\ surname_mode = FALSE
    /\ flatten = FALSE
    /\ only_hans = FALSE
    /\ matched_words = <<>>
    /\ result = <<>>
    /\ i = 0
    /\ skip_matched_len = 0
    /\ found = FALSE
    /\ pc = "idle"
    /\ panic = "none"
    /\ sep = <<>>
    /\ out = <<>>

MInit ==
    /\ MConverter
    /\ words_chunks \in Chunkings(DOMAIN Words, chunk_size(WordsLen))
    /\ chars_chunks \in Chunkings(DOMAIN Chars, chunk_size(CharsLen))
    /\ PIdle
    /\ MIdle
    /\ LIdle

call_match_word_pinyin(word) ==
    /\ calls < MaxCalls
    /\ calls' = calls + 1
    /\ call' = "match_word_pinyin"
    /\ query' = word
    /\ SetStatics(WordMatchersOnce(Statics))
    /\ matches' = Ok(match_word_pinyin(words_chunks, chars_chunks, word))
    /\ UNCHANGED <<cvars, pvars, lvars>>

\* the surnames matcher is built, and match_word_pinyin is called when a
\* first name is left
call_match_surname_pinyin(surname) ==
    /\ calls < MaxCalls
    /\ calls' = calls + 1
    /\ call' = "match_surname_pinyin"
    /\ query' = surname
    /\ LET s1 == Matcher_new(LoaderOnce(Statics, "SURNAMES_LOADER", "surnames"),
                             "surnames")
           m == match_surname_pinyin(words_chunks, chars_chunks, surname)
       IN  /\ matches' = m
           /\ IF m.tag = "Ok" /\ skip(surname, count(m.val[1][1])) # <<>>
              THEN SetStatics(WordMatchersOnce(s1))
              ELSE SetStatics(s1)
    /\ UNCHANGED <<cvars, pvars, lvars>>

call_match_char_pinyin(ch) ==
    /\ calls < MaxCalls
    /\ calls' = calls + 1
    /\ call' = "match_char_pinyin"
    /\ query' = <<ch>>
    /\ SetStatics(Matcher_new(LoaderOnce(Statics, "CHARS_LOADER", "chars"), "chars"))
    /\ matches' = Ok(match_char_pinyin(chars_chunks, ch))
    /\ UNCHANGED <<cvars, pvars, lvars>>

\* the characters of the queries: the keys of the dictionaries and one
\* character that no key holds
QueryChars == {DAN, YU, ZHA, "x"}
Queries == StringsUpTo(QueryChars, MaxLen)

MNext ==
    \/ \E word \in Queries : call_match_word_pinyin(word)
    \/ \E surname \in Queries : call_match_surname_pinyin(surname)
    \/ \E ch \in QueryChars : call_match_char_pinyin(ch)

MatcherSpec == MInit /\ [][MNext]_vars

(***************************************************************************)
(* The build of the data files (build.rs) and the loaders that parse them  *)
(* (loader.rs).  A source is the sequence of the pairs parse_line yields   *)
(* from its lines; the ten data files of a dictionary are one sequence,    *)
(* the order in which the loader reads them.                               *)
(***************************************************************************)
MaxLines == 2

SourceKeys == {<<DAN>>, <<YU>>}
SourceValues == {dan1, shan4}
SourceLines == {<<k, v>> : k \in SourceKeys, v \in SourceValues}
Sources == StringsUpTo(SourceLines, MaxLines)

KeysOf(lines) == {lines[n][1] : n \in 1..Len(lines)}

\* data.entry(chinese).or_insert(pinyin) over the lines: the value of the
\* first line of a key stays
or_insert(lines) ==
    [k \in KeysOf(lines) |->
        lines[SetMin({n \in 1..Len(lines) : lines[n][1] = k})][2]]

\* collecting pairs into a HashMap: the value of the last pair of a key
\* stays
collect(lines) ==
    [k \in KeysOf(lines) |->
        LET last == CHOOSE n \in 1..Len(lines) :
                        /\ lines[n][1] = k
                        /\ \A m \in (n + 1)..Len(lines) : lines[m][1] # k
        IN  lines[last][2]]

\* hashmap_to_sorted_vec: vec.sort_by(|a, b| a.0.cmp(&b.0))
RECURSIVE hashmap_to_sorted_vec(_)
hashmap_to_sorted_vec(map) ==
    IF DOMAIN map = {} THEN <<>>
    ELSE LET low == CHOOSE k \in DOMAIN map :
                        \A k2 \in DOMAIN map : k2 = k \/ StrLess(k, k2)
         IN  <<<<low, map[low]>>>>
             \o hashmap_to_sorted_vec([k \in (DOMAIN map) \ {low} |-> map[k]])

BInit ==
    /\ CIdle
    /\ PIdle
    /\ MIdle
    /\ base \in Sources
    /\ patch \in Sources
    /\ words_files = <<>>
    /\ chars_files = <<>>
    /\ words = <<>>
    /\ chars = <<>>
    /\ steps = {}
    /\ dict_len = 0
    /\ chunks = NotLoaded

\* the words of the base and of the patch source, written in key order
generate_words ==
    /\ "generate_words" \notin steps
    /\ steps' = steps \cup {"generate_words"}
    /\ words_files' = hashmap_to_sorted_vec(or_insert(base \o patch))
    /\ UNCHANGED <<cvars, pvars, mvars, base, patch, chars_files, words, chars,
                   dict_len, chunks>>

\* the chars of the base source, then those of the patch source
generate_chars ==
    /\ "generate_chars" \notin steps
    /\ steps' = steps \cup {"generate_chars"}
    /\ chars_files' = base \o patch
    /\ UNCHANGED <<cvars, pvars, mvars, base, patch, words_files, words, chars,
                   dict_len, chunks>>

WordsLoader_new ==
    /\ "generate_words" \in steps
    /\ "WordsLoader::new" \notin steps
    /\ steps' = steps \cup {"WordsLoader::new"}
    /\ words' = collect(words_files)
    /\ UNCHANGED <<cvars, pvars, mvars, base, patch, words_files, chars_files,
                   chars, dict_len, chunks>>

CharsLoader_new ==
    /\ "generate_chars" \in steps
    /\ "CharsLoader::new" \notin steps
    /\ steps' = steps \cup {"CharsLoader::new"}
    /\ chars' = collect(chars_files)
    /\ UNCHANGED <<cvars, pvars, mvars, base, patch, words_files, chars_files,
                   words, dict_len, chunks>>

BNext ==
    \/ generate_words
    \/ generate_chars
    \/ WordsLoader_new
    \/ CharsLoader_new

BuildSpec == BInit /\ [][BNext]_vars

(***************************************************************************)
(* Loader::load of the words and of the chars dictionary (loader.rs): a    *)
(* dictionary of dict_len entries, numbered in the order of its map, is    *)
(* cut into chunks.                                                        *)
(***************************************************************************)
MaxEntries == 60

LInit ==
    /\ CIdle
    /\ PIdle
    /\ MIdle
    /\ base = <<>>
    /\ patch = <<>>
    /\ words_files = <<>>
    /\ chars_files = <<>>
    /\ words = <<>>
    /\ chars = <<>>
    /\ steps = {}
    /\ dict_len \in 0..MaxEntries
    /\ chunks = NotLoaded

\* par_chunks(size) over n entries: it panics when size is 0, and cuts
\* after every size entries otherwise, the last chunk holding the rest
par_chunks(n, size) ==
    IF size = 0 THEN Panic(<<>>)
    ELSE Ok([j \in 1..((n + size - 1) \div size) |->
                {e \in 1..n : (e - 1) \div size = j - 1}])

WordsLoader_load ==
    /\ chunks = NotLoaded
    /\ chunks' = par_chunks(dict_len, chunk_size(dict_len))
    /\ steps' = steps \cup {"WordsLoader::load"}
    /\ UNCHANGED <<cvars, pvars, mvars, base, patch, words_files, chars_files,
                   words, chars, dict_len>>

CharsLoader_load ==
    /\ chunks = NotLoaded
    /\ chunks' = par_chunks(dict_len, chunk_size(dict_len))
    /\ steps' = steps \cup {"CharsLoader::load"}
    /\ UNCHANGED <<cvars, pvars, mvars, base, patch, words_files, chars_files,
                   words, chars, dict_len>>

LNext ==
    \/ WordsLoader_load
    \/ CharsLoader_load

LoaderSpec == LInit /\ [][LNext]_vars

(***************************************************************************)
(* Properties                                                              *)
(***************************************************************************)
WordsOf(r) == [n \in 1..Len(r) |-> r[n].word]

\* c occurs in a key of the words or of the chars dictionary
InDictionary(c) ==
    \E k \in (DOMAIN Words) \cup (DOMAIN Chars) : \E j \in 1..Len(k) : k[j] = c

RemoveUnmatched(s) == SelectSeq(s, InDictionary)

\* C1: with only_hans unset (surname mode and flatten on or off), the word
\* fields of the entries returned by convert, concatenated in order, give
\* exactly the input.
C1_Reconstructs ==
    (pc = "done" /\ ~only_hans) => Concat(WordsOf(result)) = input

\* C2: every iteration of the segmentation loop strictly advances the cursor
\* i: an iteration that pushes a candidate moves i forward, and an iteration
\* in which no candidate matches at i moves i forward by 1, also when
\* only_hans is set and the character is dropped.
C2_Advances ==
    [][/\ (pc = "for" /\ found') => i' > i
       /\ (pc = "if" /\ ~found /\ pc' = "while") => i' = i + 1]_vars

\* C3: with only_hans set, a character that no candidate matches is
\* removed (the cursor passes it and no entry is added), and the word
\* fields of the entries convert returns concatenate to the input without
\* the characters that have no dictionary candidate.
C3_OnlyHans ==
    [][only_hans =>
          /\ (pc = "if" /\ ~found) => (i' = i + 1 /\ result' = result)
          /\ pc' = "done" => Concat(WordsOf(result')) = RemoveUnmatched(input)]_vars

\* C4: with only_hans unset convert does not fail on any input, and a
\* character that no candidate matches has one entry, whose word is the
\* character and whose pinyin list is a single value of tone 5.
C4_Placeholder ==
    (~only_hans /\ ~surname_mode) =>
        /\ pc # "panic"
        /\ \A n \in 1..Len(result) :
              (Len(result[n].word) = 1 /\ ~InDictionary(result[n].word[1]))
                  => (Len(result[n].pinyin) = 1 /\ result[n].pinyin[1].tone = 5)

\* C5: parsing the number form (syllable, then tone digit) of a valid
\* Pinyin with Pinyin::from_str gives Ok of an equal value.
C5_RoundTrip ==
    (op = "to_string" /\ parsed.by = "Pinyin") => parsed.res = Ok(pin)

\* C6: Pinyin::from_str and PinyinWord::from_str answer Err, and do not
\* abort, on the empty string, on a word encoding without ':' and on a
\* syllable whose trailing digit is 0 or 6..9.
C6_Malformed ==
    /\ (op = "text" /\ parsed.by = "Pinyin" /\ text = <<>>)
          => parsed.res.tag = "Err"
    /\ (op = "text" /\ parsed.by = "Pinyin" /\ text # <<>>
           /\ text[Len(text)] \in {"0", "6", "7", "8", "9"})
          => parsed.res.tag = "Err"
    /\ (op = "text" /\ parsed.by = "PinyinWord"
           /\ \A k \in 1..Len(text) : text[k] # ":")
          => parsed.res.tag = "Err"

HasChar(s, c) == \E k \in 1..Len(s) : s[k] = c
FirstIndex(s, c) == SetMin({k \in 1..Len(s) : s[k] = c})

\* the vowel the canonical rule marks: a, else e, else the o of "ou", else
\* the last of i, u, u-diaeresis; 0 when the rule names none
CanonicalIdx(s) ==
    IF HasChar(s, "a") THEN FirstIndex(s, "a")
    ELSE IF HasChar(s, "e") THEN FirstIndex(s, "e")
    ELSE IF contains(s, <<"o", "u">>)
         THEN SetMin({k \in 1..(Len(s) - 1) : s[k] = "o" /\ s[k + 1] = "u"})
    ELSE IF \E k \in 1..Len(s) : s[k] \in {"i", "u", UE}
         THEN CHOOSE k \in 1..Len(s) :
                  /\ s[k] \in {"i", "u", UE}
                  /\ \A m \in (k + 1)..Len(s) : s[m] \notin {"i", "u", UE}
    ELSE 0

\* C7: the tone-mark rendering of a syllable with tone 1..4 puts the
\* diacritic on the one vowel the canonical rule chooses, and with tone 5
\* adds no diacritic.
C7_Canonical ==
    (op = "format" /\ style = "Mark") =>
        /\ pin.tone = 5 => text = pin.pinyin
        /\ (pin.tone # 5 /\ CanonicalIdx(pin.pinyin) > 0) =>
              text = [pin.pinyin EXCEPT ![CanonicalIdx(pin.pinyin)] =
                          mark_vowel(@, pin.tone)]

HasLyuNyu(s) == contains(s, <<"l", "y", "u">>) \/ contains(s, <<"n", "y", "u">>)

\* C8 as first stated: the Number rendering is the normalised syllable
\* followed by the tone digit, whatever the syllable.
C8_AlwaysDigit ==
    /\ (op = "format_with_yu" /\ style = "Number")
          => text = YuNormalised(pin, yu) \o <<Digits[pin.tone + 1]>>
    /\ (op = "format" /\ style = "Number")
          => text = pin.pinyin \o <<Digits[pin.tone + 1]>>

\* C8: in Number style format yields the syllable and format_with_yu the
\* normalised syllable, followed by the single digit of the tone (5 for
\* the neutral tone), except that format_with_yu yields the normalised
\* syllable alone when it contains "lyu" or "nyu".
C8_Number ==
    /\ (op = "format_with_yu" /\ style = "Number") =>
          text = IF HasLyuNyu(YuNormalised(pin, yu))
                 THEN YuNormalised(pin, yu)
                 ELSE YuNormalised(pin, yu) \o <<Digits[pin.tone + 1]>>
    /\ (op = "format" /\ style = "Number")
          => text = pin.pinyin \o <<Digits[pin.tone + 1]>>

C8_Witness ==
    /\ op = "format_with_yu"
    /\ style = "Number"
    /\ yu = "V"
    /\ pin = [pinyin |-> <<"l", UE>>, tone |-> 5]
    /\ text = <<"l", "v", "5">>

\* a character without its diacritic
BaseOf(c) ==
    IF MarkPosition(c) >= 0 THEN unmarked_vowels[(MarkPosition(c) \div 4) + 1] ELSE c

StripMarks(s) == [k \in 1..Len(s) |-> BaseOf(s[k])]

MarkedAt(s) == {k \in 1..Len(s) : MarkPosition(s[k]) >= 0}

\* s carries the diacritic of the tone on one vowel, none for tone 5
ToneMarkApplied(s, tone) ==
    IF tone = 5 THEN MarkedAt(s) = {}
    ELSE /\ Cardinality(MarkedAt(s)) = 1
         /\ \A k \in MarkedAt(s) : (MarkPosition(s[k]) % 4) + 1 = tone

\* C9 as first stated: under Yu and Mark every syllable containing
\* u-diaeresis e keeps it and carries the tone mark.
C9_AlwaysMarked ==
    (op = "format_with_yu" /\ style = "Mark" /\ yu = "Yu") =>
        IF contains(pin.pinyin, <<UE, "e">>)
        THEN StripMarks(text) = pin.pinyin /\ ToneMarkApplied(text, pin.tone)
        ELSE LET expansion == replace(pin.pinyin, <<UE>>, <<"y", "u">>)
             IN  /\ StripMarks(text) = expansion
                 /\ HasLyuNyu(expansion) => text = expansion

\* C9: under Yu and Mark a syllable containing u-diaeresis e keeps it and
\* carries the tone mark, unless the syllable itself contains "lyu" or
\* "nyu" and is returned as it is; any other syllable has each u-diaeresis
\* replaced by "yu", and is toneless when that expansion contains "lyu" or
\* "nyu".
C9_YuMark ==
    (op = "format_with_yu" /\ style = "Mark" /\ yu = "Yu") =>
        IF contains(pin.pinyin, <<UE, "e">>)
        THEN IF HasLyuNyu(pin.pinyin) THEN text = pin.pinyin
             ELSE StripMarks(text) = pin.pinyin /\ ToneMarkApplied(text, pin.tone)
        ELSE LET expansion == replace(pin.pinyin, <<UE>>, <<"y", "u">>)
             IN  /\ StripMarks(text) = expansion
                 /\ HasLyuNyu(expansion) => text = expansion

C9_Witness ==
    /\ op = "format_with_yu"
    /\ style = "Mark"
    /\ yu = "Yu"
    /\ \/ pin = [pinyin |-> <<"l", UE, "e">>, tone |-> 4] /\ text = <<"l", "u:4", "e">>
       \/ pin = [pinyin |-> <<"l", UE>>, tone |-> 3] /\ text = <<"l", "y", "u">>

\* s holds u-diaeresis, bare or under a diacritic
HasUE(s) == \E k \in 1..Len(s) : BaseOf(s[k]) = UE

\* C10 as first stated: no rendering with yu_format U or V holds
\* u-diaeresis.
C10_NeverUE ==
    (op = "format_with_yu" /\ yu \in {"U", "V"}) => ~HasChar(text, UE)

\* C10: in every tone style the rendering with yu_format V holds no
\* u-diaeresis (it is rendered v); the rendering with yu_format U holds
\* none in the toneless style only, the Number and Mark styles keeping it.
C10_NoUE ==
    /\ (op = "format_with_yu" /\ yu = "V") => ~HasUE(text)
    /\ (op = "format_with_yu" /\ yu = "U" /\ style = "None") => ~HasUE(text)

C10_Witness ==
    /\ op = "format_with_yu"
    /\ yu = "U"
    /\ style = "None"
    /\ HasChar(pin.pinyin, UE)
    /\ ~HasUE(text)

\* C11: for a syllable without the letter v, the rendering with yu_format Yu
\* holds no v in any tone style: u-diaeresis shows as itself or as "yu".
C11_NoV ==
    (op = "format_with_yu" /\ yu = "Yu" /\ ~HasChar(pin.pinyin, "v"))
        => ~HasChar(text, "v")

\* the keys of the surnames dictionary that are a prefix of s
SurnamePrefixes(s) == {k \in DOMAIN Surnames : starts_with(s, k)}

LongestOf(keys) == CHOOSE k \in keys : \A k2 \in keys : Len(k2) <= Len(k)

\* C12: in surname mode, when a key of the surnames dictionary is a prefix
\* of the input, the first entry convert returns is the longest such key
\* with its reading in the surnames dictionary, whatever else occurs in the
\* first two characters.
C12_LongestSurname ==
    (surname_mode /\ pc # "new" /\ SurnamePrefixes(input) # {}) =>
        /\ result # <<>>
        /\ LET k == LongestOf(SurnamePrefixes(input))
           IN  result[1] = ParseEntry(<<k, Surnames[k]>>).val

\* The ordinary segmentation of rem from position at on (converter.rs,
\* lines 53-85) over the candidates cands, with the settings fl (flatten)
\* and oh (only_hans); a run that fails or does not end is cut by a mark.
RECURSIVE OrdinaryFrom(_, _, _, _, _)
OrdinaryFrom(rem, cands, at, fl, oh) ==
    IF at >= Len(rem) THEN <<>>
    ELSE LET hits == {n \in 1..Len(cands) :
                         /\ at + count(cands[n][1]) <= Len(rem)
                         /\ SubSeq(rem, at + 1, at + count(cands[n][1])) = cands[n][1]}
         IN  IF hits # {}
             THEN LET n == SetMin(hits)
                      word_len == count(cands[n][1])
                      w == ParseEntry(cands[n])
                  IN  IF w.tag # "Ok" THEN <<"panic">>
                      ELSE <<IF fl THEN [w.val EXCEPT !.pinyin = truncate(@, word_len)]
                                   ELSE w.val>>
                           \o OrdinaryFrom(rem, cands, at + word_len, fl, oh)
             ELSE IF oh THEN <<"no end">>
             ELSE LET p == Pinyin_new(<<rem[at + 1]>>, 5)
                  IN  IF p.tag # "Ok" THEN <<"panic">>
                      ELSE <<[word |-> <<rem[at + 1]>>, pinyin |-> <<p.val>>]>>
                           \o OrdinaryFrom(rem, cands, at + 1, fl, oh)

\* the entries of the ordinary convert of rem
OrdinaryConvert(rem, fl, oh) ==
    OrdinaryFrom(rem, match_word_pinyin(words_chunks, chars_chunks, rem), 0, fl, oh)

\* C13: in surname mode the entries after the surname entry are the entries
\* of the ordinary convert, with the same flatten and only_hans, of the
\* input after the consumed surname; none comes from the surnames
\* dictionary.
C13_RemainderOrdinary ==
    (surname_mode /\ pc = "done" /\ result # <<>>) =>
        Tail(result) =
            OrdinaryConvert(skip(input, count(result[1].word)), flatten, only_hans)

\* res holds, for every position of q at which a key of the chunk matches,
\* the longest key of the chunk that matches there, with its annotation
CompleteFor(chunk, dict, q, res) ==
    \A p \in 1..Len(q) :
        LET ks == {k \in chunk : MatchesAt(k, q, p)}
        IN  ks # {} => \E n \in 1..Len(res) :
                           res[n] = <<LongestOf(ks), dict[LongestOf(ks)]>>

\* C14: the result of Matcher::match_to_pinyin holds, for every position of
\* the query at which a key of a chunk matches, the longest key of that
\* chunk matching there, also when the occurrence overlaps a match that
\* starts earlier.
C14_Complete ==
    /\ call = "match_word_pinyin" =>
          /\ \A B \in words_chunks : CompleteFor(B, Words, query, matches.val)
          /\ \A B \in chars_chunks : CompleteFor(B, Chars, query, matches.val)
    /\ call = "match_char_pinyin" =>
          \A B \in chars_chunks : CompleteFor(B, Chars, query, matches.val)
    /\ (call = "match_surname_pinyin" /\ matches.tag = "Ok") =>
          \A B \in SurnamesLoader_load :
              CompleteFor(B, Surnames, take(query, 2), matches.val)

\* C15: over any sequence of calls each of the three dictionaries is loaded
\* at most once and the automaton of each dictionary is compiled at most
\* once: a call made by a conversion (match_word_pinyin,
\* match_surname_pinyin) loads or compiles only what no call has built
\* before, and reuses the rest.
C15_BuiltOnce ==
    [][call' \in {"match_word_pinyin", "match_surname_pinyin"} =>
          \A d \in Dicts :
              /\ loads'[d] # loads[d] => loads[d] = 0
              /\ builds'[d] # builds[d] => builds[d] = 0]_vars

\* C19: the candidate list match_word_pinyin returns is ordered by
\* non-increasing key length in characters: no candidate comes after one
\* with fewer characters.
C19_LengthDescending ==
    call = "match_word_pinyin" =>
        \A m \in 1..Len(matches.val) : \A n \in 1..Len(matches.val) :
            m < n => count(matches.val[m][1]) >= count(matches.val[n][1])

\* the value of the last line of the key in a source
LastValue(lines, k) == collect(lines)[k]

\* C16: when the base and the patch source of a dictionary both define a
\* key, the dictionary the loader parses maps the key to the value of the
\* patch; so for the words and for the chars dictionary.
C16_PatchWins ==
    \A k \in KeysOf(base) \cap KeysOf(patch) :
        /\ "WordsLoader::new" \in steps => words[k] = LastValue(patch, k)
        /\ "CharsLoader::new" \in steps => chars[k] = LastValue(patch, k)

\* C17: for a dictionary of any size Loader::load returns, without
\* failing, exactly CHUNK_COUNT chunks that are pairwise disjoint and whose
\* union is the dictionary.
C17_TenChunks ==
    chunks # NotLoaded =>
        /\ chunks.tag = "Ok"
        /\ Len(chunks.val) = CHUNK_COUNT
        /\ \A j1 \in 1..Len(chunks.val) : \A j2 \in 1..Len(chunks.val) :
              j1 # j2 => chunks.val[j1] \cap chunks.val[j2] = {}
        /\ UNION {chunks.val[j] : j \in 1..Len(chunks.val)} = 1..dict_len

\* the candidates of the list that match the input at the cursor
MatchingAt(at) ==
    {n \in 1..Len(matched_words) : CandidateMatches(matched_words[n][1], at)}

\* C18: in non-surname mode the entry convert emits at a cursor position i
\* is the longest key of the candidate list of match_word_pinyin that
\* equals the input at i: it is emitted whenever a candidate matches, and
\* no candidate that matches at i is longer.
C18_GreedyLongest ==
    [][(~surname_mode /\ pc = "for" /\ pc' = "if") =>
          /\ found' <=> MatchingAt(i) # {}
          /\ found' =>
                /\ result' = Append(result, result'[Len(result')])
                /\ result'[Len(result')].word = SubSeq(input, i + 1, i')
                /\ \E n \in MatchingAt(i) : count(matched_words[n][1]) = i' - i
                /\ \A n \in MatchingAt(i) : count(matched_words[n][1]) <= i' - i]_vars

C18_Witness ==
    /\ ~surname_mode
    /\ pc = "if"
    /\ found
    /\ input = <<YU, DAN, YU>>
    /\ i = 3
    /\ Len(result) = 1
    /\ result[1].word = <<YU, DAN, YU>>
    /\ \E n \in 1..Len(matched_words) : matched_words[n][1] = <<YU>>

\* the entries PinyinWord::from_str makes of the dictionary entries
ParsedWords == [k \in DOMAIN Words |-> ParseEntry(<<k, Words[k]>>).val]
ParsedChars == [k \in DOMAIN Chars |-> ParseEntry(<<k, Chars[k]>>).val]

\* the entry convert makes of the parsed entry w
EntryOf(w) ==
    IF flatten THEN [w EXCEPT !.pinyin = truncate(@, count(w.word))] ELSE w

DictionaryDerived(e) ==
    \/ e.word \in DOMAIN Words /\ e = EntryOf(ParsedWords[e.word])
    \/ e.word \in DOMAIN Chars /\ e = EntryOf(ParsedChars[e.word])

HoldsCharsKey(word) == \E j \in 1..Len(word) : <<word[j]>> \in DOMAIN Chars

\* C20: in non-surname mode every position of the input whose character is
\* a key of the chars dictionary is covered, in the result convert ends
\* with, by an entry made from a dictionary (a word holding it, or its chars
\* entry), never by the tone-5 placeholder, and is never dropped, with
\* only_hans set or not.
C20_CharsCovered ==
    (~surname_mode /\ pc \in {"while", "for", "if", "done", "panic"}) =>
        /\ Concat(WordsOf(result)) = SubSeq(input, 1, i)
        /\ pc \in {"done", "panic"} =>
              \A n \in 1..Len(result) :
                  HoldsCharsKey(result[n].word) => DictionaryDerived(result[n])
        /\ (pc = "if" /\ ~found) => <<input[i + 1]>> \notin DOMAIN Chars

C20_Witness ==
    /\ ~surname_mode
    /\ only_hans
    /\ pc = "done"
    /\ input = <<ZHA, DAN>>
    /\ Len(result) = 2
    /\ result[1] = EntryOf(ParsedChars[<<ZHA>>])
    /\ result[2] = EntryOf(ParsedChars[<<DAN>>])

\* the entry of one unmatched character
IsPlaceholder(e) ==
    /\ Len(e.word) = 1
    /\ e.pinyin = <<[pinyin |-> e.word, tone |-> 5]>>

ParsedSurnames == [k \in DOMAIN Surnames |-> ParseEntry(<<k, Surnames[k]>>).val]

\* the entry PinyinWord::from_str makes of the candidate c, an entry of one
\* of the three dictionaries
ParsedCandidate(c) ==
    IF c[1] \in DOMAIN Surnames /\ Surnames[c[1]] = c[2] THEN ParsedSurnames[c[1]]
    ELSE IF c[1] \in DOMAIN Words /\ Words[c[1]] = c[2] THEN ParsedWords[c[1]]
    ELSE ParsedChars[c[1]]

\* e is made of a candidate of the list, cut to the first readings, one
\* per character of the word
FirstReadings(e) ==
    \E m \in 1..Len(matched_words) :
        /\ matched_words[m][1] = e.word
        /\ e.pinyin = SubSeq(ParsedCandidate(matched_words[m]).pinyin, 1, count(e.word))

\* C21: with flatten set, directly or by as_surnames, every entry convert
\* returns, the surname entry included, has one Pinyin per character of
\* its word; the entry of a character with several readings keeps the
\* first reading only.
C21_Flattened ==
    (flatten /\ pc \in {"while", "for", "if", "done", "panic"}) =>
        /\ \A n \in 1..Len(result) :
              Len(result[n].pinyin) = count(result[n].word)
        /\ pc \in {"done", "panic"} =>
              \A n \in 1..Len(result) :
                  IsPlaceholder(result[n]) \/ FirstReadings(result[n])

C21_Witness ==
    /\ flatten
    /\ surname_mode
    /\ pc = "done"
    /\ input = <<DAN, DAN>>
    /\ Len(result) = 2
    /\ Len(ParsedChars[<<DAN>>].pinyin) = 3
    /\ result[1].pinyin = <<[pinyin |-> <<"s", "h", "a", "n">>, tone |-> 4]>>
    /\ result[2].pinyin = <<[pinyin |-> <<"d", "a", "n">>, tone |-> 1]>>

\* the renderings of all Pinyin values of all entries, in order
RECURSIVE Renderings(_)
Renderings(ws) ==
    IF ws = <<>> THEN <<>>
    ELSE [k \in 1..Len(Head(ws).pinyin) |->
             format_with_yu(Head(ws).pinyin[k], tone_style, yu_format)]
         \o Renderings(Tail(ws))

\* C22: to_string_with(sep) returns the renderings, by tone_style and
\* yu_format, of all Pinyin values of all entries of convert in order, with
\* one sep between consecutive renderings and none in front, the
\* whitespace at the end removed; to_string uses " " and to_permalink "-".
C22_Joined ==
    /\ pc \in {"to_string_with", "to_string", "to_permalink"} =>
          out = trim_end(JoinStrings(Renderings(result), sep))
    /\ pc = "to_string" => sep = <<" ">>
    /\ pc = "to_permalink" => sep = <<"-">>

C22_Witness ==
    /\ pc = "to_permalink"
    /\ input = <<DAN, YU, ZHA>>
    /\ ~flatten
    /\ tone_style = "Mark"
    /\ out = <<"c", "h", "a2", "n", "-", "y", "u2", "-",
               "c", "h", "a2", "-", "z", "h", "a1">>

\* C23: for a syllable that holds neither u-diaeresis nor v, format_with_yu
\* returns in each tone style the same string for the yu_formats Yu, U and
\* V.
C23_YuIndependent ==
    (op = "format_with_yu" /\ ~HasChar(pin.pinyin, UE) /\ ~HasChar(pin.pinyin, "v")) =>
        \A y \in YuFormat : format_with_yu(pin, style, y) = text

\* m is a syllable in the standard tone-marked form: one diacritic, on the
\* vowel the canonical rule names
StandardMarked(m) ==
    /\ Cardinality(MarkedAt(m)) = 1
    /\ StripMarks(m) \in Syllables
    /\ MarkedAt(m) = {CanonicalIdx(StripMarks(m))}

\* C24: for a tone-marked syllable m in the standard form Pinyin::from_str(m)
\* succeeds, and format(ToneStyle::Mark) of the result gives m back.
C24_MarkRoundTrip ==
    (op = "text" /\ parsed.by = "Pinyin" /\ StandardMarked(text)) =>
        /\ parsed.res.tag = "Ok"
        /\ Pinyin_format(parsed.res.val, "Mark") = text

\* the options that a step changes
Changed ==
    {f \in {"tone_style", "yu_format", "surname_mode", "flatten", "only_hans"} :
        \/ f = "tone_style" /\ tone_style' # tone_style
        \/ f = "yu_format" /\ yu_format' # yu_format
        \/ f = "surname_mode" /\ surname_mode' # surname_mode
        \/ f = "flatten" /\ flatten' # flatten
        \/ f = "only_hans" /\ only_hans' # only_hans}

\* C25 as first stated: a setter changes the one option it names and
\* leaves the input and the other options, as_surnames alone setting two
\* (surname_mode and flatten).
C25_OneOption ==
    [][(pc = "new" /\ pc' = "new") =>
          /\ input' = input
          /\ \/ Cardinality(Changed) <= 1
             \/ Changed = {"surname_mode", "flatten"} /\ surname_mode' /\ flatten']_vars

\* C25: a setter leaves the input, and changes the one option it names
\* (flatten, as_surnames and only_hans set theirs to true), with two
\* exceptions: as_surnames sets surname_mode and flatten, and yu_to_v sets
\* yu_format to V and tone_style to None.
C25_Frame ==
    [][(pc = "new" /\ pc' = "new") =>
          /\ input' = input
          /\ \/ Changed \subseteq {"tone_style"}
             \/ Changed \subseteq {"yu_format"} /\ yu_format' \in {"Yu", "U"}
             \/ /\ Changed \subseteq {"yu_format", "tone_style"}
                /\ yu_format' = "V"
                /\ tone_style' = "None"
             \/ Changed \subseteq {"flatten"} /\ flatten'
             \/ Changed \subseteq {"surname_mode", "flatten"} /\ surname_mode' /\ flatten'
             \/ Changed \subseteq {"only_hans"} /\ only_hans']_vars

C25_Witness ==
    /\ pc = "new"
    /\ yu_format = "V"
    /\ tone_style = "None"
    /\ surname_mode
    /\ flatten
    /\ only_hans

\* C26: during convert the cursor i counts characters, not bytes, and stays
\* within 0..input_len at every step, in surname mode and out of it; the
\* character read when no candidate matched lies within the input.
C26_CursorInRange ==
    pc \in {"new", "while", "for", "if", "done", "panic"} =>
        /\ i \in 0..input_len
        /\ Len(Concat(WordsOf(result))) <= input_len
        /\ (pc = "for" \/ (pc = "if" /\ ~found)) => i < input_len

C26_Witness ==
    /\ surname_mode
    /\ pc = "done"
    /\ input = <<DAN, YU, ZHA>>
    /\ len(input) = 9
    /\ i = 3
    /\ Len(result) = 2

\* a key of the surnames dictionary occurs in s
SurnameOccurs(s) ==
    \E k \in DOMAIN Surnames : \E at \in 1..Len(s) : MatchesAt(k, s, at)

\* C27: in surname mode, when no key of the surnames dictionary occurs in
\* the first two characters of the input (the empty input included),
\* convert does not fail in its surname step and returns the ordinary
\* segmentation of the whole input, with no surname entry.
C27_NoSurname ==
    (surname_mode /\ pc # "new" /\ ~SurnameOccurs(take(input, 2))) =>
        /\ ~(pc = "panic" /\ panic = "index out of bounds")
        /\ pc = "done" => result = OrdinaryConvert(input, flatten, only_hans)
====
